---------------------------- MODULE Spec2Model ----------------------------
(***************************************************************************)
(* The task/exec lifecycle manager of containerd-shim-runhcs-v1:           *)
(* newHcsStandaloneTask / newHcsTask (task creation), the hcsTask operator *)
(* calls CreateExec, GetExec, KillExec, DeleteExec and Pids running on     *)
(* concurrent callers, and the background waitForExit teardown goroutine.  *)
(***************************************************************************)
EXTENDS Integers, Sequences, FiniteSets, TLC

(* ------------------------------ bounds --------------------------------- *)
\* Exec objects newHcsExec may allocate besides the init exec.
MaxObjs == 2
\* Operator calls issued over one run of the operator surface (SpecOps).
MaxCalls == 3
\* Operator calls issued, by one caller, over one run of the whole task
\* lifecycle (Spec).
LifeCalls == 1

\* VPMEM slots of the utility VM (uvm.vpmemMaxCount).
MaxVPMEM == 2
\* Highest reference count a VPMEM slot is taken to.
MaxRef == 2

\* Concurrent callers of the operator surface.
Callers == {1, 2}
\* Non-empty exec ids a request may carry; "" names the init exec.
ExecIds == {"e1", "e2"}
InitId == ""
AllIds == ExecIds \cup {InitId}

(* --------------------------- program constants ------------------------- *)
\* const shutdownTimeout = time.Minute * 5 (seconds)
shutdownTimeout == 300
\* const terminateTimeout = time.Second * 30 (seconds)
terminateTimeout == 30

\* The exec object of the init exec (ht.init); 1..MaxObjs are ht.execs values.
InitObj == 0
NoObj == -1
Objs == 0..MaxObjs

VARIABLES
    crPc,       \* position of the thread running newHcsStandaloneTask
    crErr,      \* the error newHcsStandaloneTask returned ("nil" if none)
    ntErr,      \* the error newHcsTask returned to its caller
    crTask,     \* TRUE once a shimTask has been returned to the caller
    host,       \* parent *uvm.UtilityVM: "nil", "created", "started", "startFailed",
                \* or "shared" (the running VM of a pod)
    ownsHost,   \* ht.ownsHost
    c,          \* ht.c, the *hcs.System: "nil" or "open"
    state,      \* state of every exec object; "None" = not allocated
    objId,      \* the exec id each exec object was created with
    execs,      \* ht.execs: exec id -> exec object (a sync.Map)
    ecl,        \* ht.ecl: the caller holding it, 0 when free
    events,     \* number of events published, per <<topic, exec id>>
    call,       \* per caller: the operator call it is running and its locals
    budget,     \* operator calls the callers may still issue
    tdPc,       \* position of the waitForExit goroutine ("none" before go)
    tdStarted,  \* number of waitForExit goroutines started
    hcsLog,     \* calls made on ht.c, ht.cr and the host, in order: <<by, op, arg>>
    shutdownRes, \* what ht.c.Shutdown() returned in waitForExit
    terminateRes, \* what ht.c.Terminate() returned in waitForExit
    publishLock, \* var publishLock sync.Mutex: the caller holding it, 0 when free
    publishing, \* per caller: the publishEvent call it is running
    operatingSystem, \* uvm.operatingSystem
    vpmemDevices, \* uvm.vpmemDevices: slot -> *vpmemInfo (NoDevice = nil)
    vmDevices,  \* VPMEM devices hot-added to the VM: slot -> host path ("none" = no device)
    guestMounts, \* slots the guest has mounted a VPMEM layer for
    held,       \* per host path: successful AddVPMEM calls not yet matched
                \* by a successful RemoveVPMEM
    uvmCall     \* the last AddVPMEM / RemoveVPMEM call: arguments, results and
                \* the VM as it was when the call was made

vars == <<crPc, crErr, ntErr, crTask, host, ownsHost, c, state, objId, execs,
          ecl, events, call, budget, tdPc, tdStarted, hcsLog, shutdownRes,
          terminateRes, publishLock, publishing, operatingSystem, vpmemDevices,
          vmDevices, guestMounts, held, uvmCall>>

createVars == <<crPc, crErr, ntErr, crTask, host, ownsHost, c>>
execVars == <<state, objId, execs, ecl>>
tdVars == <<tdPc, tdStarted, hcsLog, shutdownRes, terminateRes>>
pubVars == <<publishLock, publishing>>
uvmVars == <<operatingSystem, vpmemDevices, vmDevices, guestMounts, held, uvmCall>>
extVars == <<pubVars, uvmVars>>
taskVars == <<createVars, execVars, call, tdVars>>

(* ------------------------------ helpers -------------------------------- *)
EventKeys == {<<"TaskCreate", InitId>>} \cup ({"TaskExecAdded"} \X ExecIds)
                 \cup ({"TaskDelete"} \X AllIds)

\* ht.events(topic, event): one more event of that topic for that exec id.
Publish(ev, topic, id) == [ev EXCEPT ![<<topic, id>>] = @ + 1]

\* A call on the container handle, its resources or the host VM.
HcsCall(by, op, arg) == <<by, op, arg>>

Count(log, by, op) == Cardinality({i \in 1..Len(log) : log[i][1] = by /\ log[i][2] = op})
CountOp(log, op) == Cardinality({i \in 1..Len(log) : log[i][2] = op})

\* The orders in which sync.Map.Range may visit the keys of a map.
Perms(S) == {s \in [1..Cardinality(S) -> S] : \A x \in S : \E i \in 1..Cardinality(S) : s[i] = x}

Min(S) == CHOOSE x \in S : \A y \in S : x <= y

\* sync.Map.Range(f): the keys f is called on when the keys are visited in
\* `order`: Range calls f on each key in turn and stops after the first call
\* that returns false.
RangeVisited(order, continues) ==
    LET stops == {i \in 1..Len(order) : order[i] \notin continues}
    IN  IF stops = {} THEN order ELSE SubSeq(order, 1, Min(stops))

SeqRange(s) == {s[i] : i \in 1..Len(s)}

(* ---------------------- publishEvent and VPMEM state ------------------- *)
\* A caller that is not inside publishEvent.
IdlePublish == [pc |-> "idle", key |-> <<"TaskCreate", InitId>>, err |-> "nil",
                after |-> {}]

\* No publishEvent call is running and publishLock is free.
PublishIdle ==
    /\ publishLock = 0
    /\ publishing = [p \in Callers |-> IdlePublish]

\* The host paths AddVPMEM / RemoveVPMEM are called with.
HostPaths == {"a", "b", "c"}
Slots == 0..(MaxVPMEM - 1)
\* uvm.vpmemDevices[i] == nil
NoDevice == [hostPath |-> "none", uvmPath |-> <<"none", 0>>, refCount |-> 0]

\* fmt.Sprintf(lcowVPMEMLayerFmt, deviceNumber)
lcowVPMEMLayerFmt(deviceNumber) == <<"/run/layers/p", deviceNumber>>

\* No AddVPMEM / RemoveVPMEM call has been made.
IdleUvmCall == [op |-> "none", hostPath |-> "none", err |-> "nil",
                ret |-> <<"none", 0>>, hotAdded |-> FALSE,
                wasDevices |-> [i \in Slots |-> NoDevice],
                wasVm |-> [i \in Slots |-> "none"],
                wasHeld |-> 0]

\* A utility VM running `os` with no VPMEM device attached.
VpmemEmpty(os) ==
    /\ operatingSystem = os
    /\ vpmemDevices = [i \in Slots |-> NoDevice]
    /\ vmDevices = [i \in Slots |-> "none"]
    /\ guestMounts = {}
    /\ held = [h \in HostPaths |-> 0]
    /\ uvmCall = IdleUvmCall

(* ------------------------------ Init ----------------------------------- *)
IdleCall == [op |-> "none", eid |-> InitId, all |-> FALSE, pc |-> "idle",
             e |-> NoObj, invalid |-> FALSE, pend |-> {}, sig |-> {},
             err |-> "nil", res |-> "none",
             conc |-> {},
             fresh |-> FALSE, stored |-> FALSE, issuedInit |-> "None",
             seenInit |-> "None", dup |-> FALSE, pub |-> FALSE,
             live |-> FALSE, reg |-> {}, seen |-> "None", rm |-> NoObj,
             late |-> FALSE]

\* A caller slot no caller is attached to.
AbsentCall == [IdleCall EXCEPT !.pc = "absent"]

Init ==
    /\ crPc = "validate"
    /\ crErr = "nil"
    /\ ntErr = "nil"
    /\ crTask = FALSE
    /\ host = "nil"
    /\ ownsHost = FALSE
    /\ c = "nil"
    /\ state = [o \in Objs |-> "None"]
    /\ objId = [o \in Objs |-> InitId]
    /\ execs = [k \in {} |-> NoObj]
    /\ ecl = 0
    /\ events = [k \in EventKeys |-> 0]
    /\ call = [p \in Callers |-> IF p = Min(Callers) THEN IdleCall ELSE AbsentCall]
    /\ budget = LifeCalls
    /\ tdPc = "none"
    /\ tdStarted = 0
    /\ hcsLog = <<>>
    /\ shutdownRes = "none"
    /\ terminateRes = "none"
    /\ PublishIdle
    /\ VpmemEmpty("linux")

(* ------------------------- task creation ------------------------------- *)
\* newHcsStandaloneTask, lines 31-41: the sandbox-type annotation.
ValidateSandboxType ==
    /\ crPc = "validate"
    /\ \E r \in {"ok", "err", "notStandalone"} :
         /\ crPc' = IF r = "ok" THEN "provision" ELSE "returned"
         /\ crErr' = CASE r = "ok" -> "nil"
                       [] r = "err" -> "ErrSandboxType"
                       [] OTHER -> "ErrFailedPrecondition"
    /\ UNCHANGED <<extVars, ntErr, crTask, host, ownsHost, c, execVars, events, call, budget, tdVars>>

\* newHcsStandaloneTask, lines 45-81 and 86-88: create the UVM parent when the
\* spec is isolated (and the build is RS5+), else require a WCOW spec.
ProvisionParent ==
    /\ crPc = "provision"
    /\ \E isolated \in BOOLEAN, r \in {"ok", "optsErr", "mkdirErr", "createErr", "notWCOW"} :
         /\ isolated => r # "notWCOW"
         /\ ~isolated => r \in {"ok", "notWCOW"}
         /\ host' = IF isolated /\ r = "ok" THEN "created" ELSE "nil"
         /\ crPc' = CASE r # "ok" -> "returned"
                      [] isolated -> "startParent"
                      [] OTHER -> "newTask"
         /\ crErr' = CASE r = "ok" -> "nil"
                       [] r = "notWCOW" -> "ErrFailedPrecondition"
                       [] OTHER -> r
    /\ UNCHANGED <<extVars, ntErr, crTask, ownsHost, c, execVars, events, call, budget, tdVars>>

\* newHcsStandaloneTask, lines 82-85: parent.Start(); on failure parent.Close().
\* The function does not return here: it goes on to line 90.
StartParent ==
    /\ crPc = "startParent"
    /\ \E ok \in BOOLEAN :
         /\ host' = IF ok THEN "started" ELSE "startFailed"
         /\ hcsLog' = IF ok THEN hcsLog
                      ELSE Append(hcsLog, HcsCall("create", "HostClose", 0))
    /\ crPc' = "newTask"
    /\ UNCHANGED <<extVars, crErr, ntErr, crTask, ownsHost, c, execVars, events, call, budget,
                   tdPc, tdStarted, shutdownRes, terminateRes>>

\* newHcsTask(ctx, events, parent, ownsParent, req, s), lines 104-184.
NewHcsTask(ownsParent) ==
    \E r \in {"ok", "ErrExecutable", "ErrRelay", "ErrCreateContainer"} :
       /\ ntErr' = IF r = "ok" THEN "nil" ELSE r
       /\ IF r = "ok"
          THEN /\ c' = "open"
               /\ ownsHost' = ownsParent
               /\ state' = [state EXCEPT ![InitObj] = "Created"]
               /\ tdPc' = "wait"
               /\ tdStarted' = tdStarted + 1
               /\ events' = Publish(events, "TaskCreate", InitId)
          ELSE UNCHANGED <<c, ownsHost, state, tdPc, tdStarted, events>>

\* newHcsStandaloneTask, line 90: shim, err := newHcsTask(ctx, events, parent, true, req, s)
CallNewHcsTask ==
    /\ crPc = "newTask"
    /\ NewHcsTask(TRUE)
    /\ crPc' = "finish"
    /\ UNCHANGED <<extVars, crErr, crTask, host, objId, execs, ecl, call, budget, hcsLog,
                   shutdownRes, terminateRes>>

\* newHcsStandaloneTask returning newHcsTask's error without closing the parent.
FinishStandalone_NoRollback ==
    /\ crPc = "finish"
    /\ crPc' = "returned"
    /\ IF ntErr # "nil"
       THEN /\ crErr' = ntErr
            /\ crTask' = FALSE
       ELSE /\ crTask' = TRUE
            /\ UNCHANGED crErr
    /\ UNCHANGED <<extVars, ntErr, host, ownsHost, c, execVars, events, call, budget, tdVars>>

\* newHcsStandaloneTask, lines 91-97: on error close the parent, return the error.
FinishStandalone ==
    /\ crPc = "finish"
    /\ crPc' = "returned"
    /\ IF ntErr # "nil"
       THEN /\ hcsLog' = IF host # "nil"
                         THEN Append(hcsLog, HcsCall("create", "HostClose", 0))
                         ELSE hcsLog
            /\ crErr' = ntErr
            /\ crTask' = FALSE
       ELSE /\ crTask' = TRUE
            /\ UNCHANGED <<hcsLog, crErr>>
    /\ UNCHANGED <<extVars, ntErr, host, ownsHost, c, execVars, events, call, budget,
                   tdPc, tdStarted, shutdownRes, terminateRes>>

\* A pod creates one of its member tasks in the VM it shares among them (or
\* on the host when the pod is process isolated):
\* newHcsTask(ctx, events, parent, false, req, s). The pod keeps the VM.
PodCreateTask ==
    /\ crPc = "validate"
    /\ \E h \in {"shared", "nil"} : host' = h
    /\ NewHcsTask(FALSE)
    /\ crErr' = ntErr'
    /\ crTask' = (ntErr' = "nil")
    /\ crPc' = "returned"
    /\ UNCHANGED <<extVars, objId, execs, ecl, call, budget, hcsLog, shutdownRes, terminateRes>>

(* ------------------------ the exec state machine ----------------------- *)
\* shimExec.Wait: blocks the caller until the exec is Exited.
ExecWaitReturns(o) == state[o] = "Exited"

\* shimExec.Kill(signal): valid only while the exec is Running.
ExecKill(o) == IF state[o] = "Running" THEN "nil" ELSE "ErrFailedPrecondition"

\* shimExec.Start: Created -> Running.
StartExec(o) ==
    /\ state[o] = "Created"
    /\ state' = [state EXCEPT ![o] = "Running"]
    /\ UNCHANGED <<extVars, createVars, objId, execs, ecl, events, call, budget, tdVars>>

\* The process of a Running exec exits: Running -> Exited.
ExitExec(o) ==
    /\ state[o] = "Running"
    /\ state' = [state EXCEPT ![o] = "Exited"]
    /\ UNCHANGED <<extVars, createVars, objId, execs, ecl, events, call, budget, tdVars>>

(* --------------------------- operator calls ---------------------------- *)
\* hcsTask.GetExec(eid): the init exec for "", else the registry entry; NoObj
\* stands for the ErrNotFound return.
GetExec(eid) ==
    IF eid = InitId THEN InitObj
    ELSE IF eid \in DOMAIN execs THEN execs[eid] ELSE NoObj

\* Exec objects newHcsExec can still allocate.
FreeObjs == {o \in 1..MaxObjs : state[o] = "None"}
InCreate == {p \in Callers : call[p].pc \in {"ceLock", "ceLoad", "ceState", "ceStore"}}

CanIssue(p) ==
    /\ crTask
    /\ call[p].pc = "idle"
    /\ budget > 0

Finish(p, r) == [call EXCEPT ![p] = [@ EXCEPT !.pc = "done", !.res = r]]

\* A caller enters hcsTask.CreateExec(ctx, req, spec) with req.ExecID = eid.
IssueCreateExec(p, eid) ==
    /\ CanIssue(p)
    /\ Cardinality(FreeObjs) > Cardinality(InCreate)
    /\ call' = [call EXCEPT ![p] = [IdleCall EXCEPT !.op = "CreateExec", !.eid = eid,
                    !.pc = "ceLock", !.fresh = (eid \notin DOMAIN execs),
                    !.issuedInit = state[InitObj], !.conc = InCreate]]
    /\ budget' = budget - 1
    /\ UNCHANGED <<extVars, createVars, execVars, events, tdVars>>

\* CreateExec entered without waiting for ht.ecl.
CreateExecLock_NoMutex(p) ==
    /\ call[p].pc = "ceLock"
    /\ ecl' = p
    /\ call' = [call EXCEPT ![p].pc = "ceLoad"]
    /\ UNCHANGED <<extVars, createVars, state, objId, execs, events, budget, tdVars>>

\* CreateExec, lines 247-248: ht.ecl.Lock().
CreateExecLock(p) ==
    /\ call[p].pc = "ceLock"
    /\ ecl = 0
    /\ ecl' = p
    /\ call' = [call EXCEPT ![p].pc = "ceLoad"]
    /\ UNCHANGED <<extVars, createVars, state, objId, execs, events, budget, tdVars>>

\* CreateExec rejecting the empty id only, ht.execs.Load not consulted.
CreateExecLoad_NoDupCheck(p) ==
    /\ call[p].pc = "ceLoad"
    /\ IF call[p].eid = InitId
       THEN /\ call' = Finish(p, "ErrAlreadyExists")
            /\ ecl' = 0
       ELSE /\ call' = [call EXCEPT ![p].pc = "ceState",
                                    ![p].dup = (call[p].eid \in DOMAIN execs)]
            /\ UNCHANGED ecl
    /\ UNCHANGED <<extVars, createVars, state, objId, execs, events, budget, tdVars>>

\* CreateExec, lines 252-254: the duplicate / empty id test.
CreateExecLoad(p) ==
    /\ call[p].pc = "ceLoad"
    /\ IF call[p].eid \in DOMAIN execs \/ call[p].eid = InitId
       THEN /\ call' = [Finish(p, "ErrAlreadyExists") EXCEPT
                           ![p].dup = (call[p].eid \in DOMAIN execs)]
            /\ ecl' = 0
       ELSE /\ call' = [call EXCEPT ![p].pc = "ceState"]
            /\ UNCHANGED ecl
    /\ UNCHANGED <<extVars, createVars, state, objId, execs, events, budget, tdVars>>

\* CreateExec going on to newRelay without testing ht.init.State().
CreateExecState_NoInitCheck(p) ==
    /\ call[p].pc = "ceState"
    /\ \E relayOk \in BOOLEAN :
         IF relayOk
         THEN /\ call' = [call EXCEPT ![p].pc = "ceStore",
                                      ![p].seenInit = state[InitObj]]
              /\ UNCHANGED ecl
         ELSE /\ call' = [Finish(p, "ErrRelay") EXCEPT
                             ![p].seenInit = state[InitObj]]
              /\ ecl' = 0
    /\ UNCHANGED <<extVars, createVars, state, objId, execs, events, budget, tdVars>>

\* CreateExec, lines 256-263: the init exec must be Running; then newRelay.
CreateExecState(p) ==
    /\ call[p].pc = "ceState"
    /\ IF state[InitObj] # "Running"
       THEN /\ call' = [Finish(p, "ErrFailedPrecondition") EXCEPT
                           ![p].seenInit = state[InitObj]]
            /\ ecl' = 0
       ELSE \E relayOk \in BOOLEAN :
              IF relayOk
              THEN /\ call' = [call EXCEPT ![p].pc = "ceStore",
                                           ![p].seenInit = state[InitObj]]
                   /\ UNCHANGED ecl
              ELSE /\ call' = [Finish(p, "ErrRelay") EXCEPT
                                  ![p].seenInit = state[InitObj]]
                   /\ ecl' = 0
    /\ UNCHANGED <<extVars, createVars, state, objId, execs, events, budget, tdVars>>

\* CreateExec, lines 264-275: newHcsExec, ht.execs.Store, the exec-added event,
\* return nil (the deferred Unlock runs).
CreateExecStore(p) ==
    /\ call[p].pc = "ceStore"
    /\ LET o == Min(FreeObjs)
           eid == call[p].eid
       IN  /\ state' = [state EXCEPT ![o] = "Created"]
           /\ objId' = [objId EXCEPT ![o] = eid]
           /\ execs' = [k \in DOMAIN execs \cup {eid} |->
                           IF k = eid THEN o ELSE execs[k]]
           /\ events' = Publish(events, "TaskExecAdded", eid)
    /\ call' = [Finish(p, "nil") EXCEPT ![p].stored = TRUE, ![p].pub = TRUE,
                    ![p].late = (events[<<"TaskDelete", InitId>>] > 0)]
    /\ ecl' = 0
    /\ UNCHANGED <<extVars, createVars, budget, tdVars>>

\* A caller calls hcsTask.GetExec(eid), lines 278-287.
CallGetExec(p, eid) ==
    /\ CanIssue(p)
    /\ call' = [call EXCEPT ![p] = [IdleCall EXCEPT !.op = "GetExec", !.eid = eid,
                    !.pc = "done", !.e = GetExec(eid),
                    !.res = IF GetExec(eid) = NoObj THEN "ErrNotFound" ELSE "nil"]]
    /\ budget' = budget - 1
    /\ UNCHANGED <<extVars, createVars, execVars, events, tdVars>>

\* A caller calls hcsTask.Pids(ctx), lines 394-400.
CallPids(p) ==
    /\ CanIssue(p)
    /\ call' = [call EXCEPT ![p] = [IdleCall EXCEPT !.op = "Pids", !.pc = "done",
                    !.res = "ErrNotImplemented"]]
    /\ budget' = budget - 1
    /\ UNCHANGED <<extVars, createVars, execVars, events, tdVars>>

\* KillExec, lines 307-315: the callback of the kill-all Range ("return false").
KillAllVisit(k) == FALSE

\* KillExec lines 320-329 and DeleteExec lines 357-366: the callback of the
\* all-exited Range: true after a not-exited exec, false after an exited one.
NotExitedVisit(k) == state[execs[k]] # "Exited"

\* `invalid` after the all-exited Range over the registry visited in `order`.
RangeInvalid(order) ==
    \E k \in SeqRange(RangeVisited(order, {k \in DOMAIN execs : NotExitedVisit(k)})) : state[execs[k]] # "Exited"

\* The execs the kill-all Range starts a Kill goroutine for.
RangeKillAll(order) ==
    {execs[k] : k \in SeqRange(RangeVisited(order, {k \in DOMAIN execs : KillAllVisit(k)}))}

LiveNow == \E k \in DOMAIN execs : state[execs[k]] # "Exited"
RegNow == {execs[k] : k \in DOMAIN execs}

\* A caller enters hcsTask.KillExec(ctx, eid, signal, all).
IssueKillExec(p, eid, all) ==
    /\ CanIssue(p)
    /\ call' = [call EXCEPT ![p] = [IdleCall EXCEPT !.op = "KillExec", !.eid = eid,
                    !.all = all, !.pc = "keGet"]]
    /\ budget' = budget - 1
    /\ UNCHANGED <<extVars, createVars, execVars, events, tdVars>>

\* KillExec, lines 297-303: GetExec, then the `all && eid != ""` test.
KillExecGet(p) ==
    /\ call[p].pc = "keGet"
    /\ LET e == GetExec(call[p].eid)
       IN  call' = CASE e = NoObj -> Finish(p, "ErrNotFound")
                     [] call[p].all /\ call[p].eid # InitId ->
                            [Finish(p, "ErrFailedPrecondition") EXCEPT ![p].e = e]
                     [] call[p].all \/ call[p].eid = InitId ->
                            [call EXCEPT ![p].e = e, ![p].pc = "keRange"]
                     [] OTHER ->
                            [call EXCEPT ![p].e = e, ![p].pend = {e}, ![p].pc = "keKill"]
    /\ UNCHANGED <<extVars, createVars, execVars, events, budget, tdVars>>

\* KillExec, lines 304-336: the Range over ht.execs and the eg.Go dispatches.
KillExecRange(p) ==
    /\ call[p].pc = "keRange"
    /\ \E order \in Perms(DOMAIN execs) :
         IF call[p].all
         THEN call' = [call EXCEPT ![p].pend = RangeKillAll(order) \cup {call[p].e},
                                   ![p].live = LiveNow, ![p].reg = RegNow,
                                   ![p].pc = "keKill"]
         ELSE IF RangeInvalid(order)
              THEN call' = [Finish(p, "ErrFailedPrecondition") EXCEPT
                               ![p].invalid = TRUE, ![p].live = LiveNow,
                               ![p].reg = RegNow]
              ELSE call' = [call EXCEPT ![p].pend = {call[p].e},
                                        ![p].live = LiveNow, ![p].reg = RegNow,
                                        ![p].pc = "keKill"]
    /\ UNCHANGED <<extVars, createVars, execVars, events, budget, tdVars>>

\* A goroutine of the errgroup whose Kill error is dropped.
KillExecGo_DropError(p, o) ==
    /\ call[p].pc = "keKill"
    /\ o \in call[p].pend
    /\ call' = [call EXCEPT ![p].pend = @ \ {o},
                            ![p].sig = @ \cup {o},
                            ![p].seen = IF o = call[p].e THEN state[o] ELSE @]
    /\ UNCHANGED <<extVars, createVars, execVars, events, budget, tdVars>>

\* One goroutine of the errgroup runs ex.Kill(ctx, signal).
KillExecGo(p, o) ==
    /\ call[p].pc = "keKill"
    /\ o \in call[p].pend
    /\ call' = [call EXCEPT ![p].pend = @ \ {o},
                            ![p].sig = @ \cup {o},
                            ![p].seen = IF o = call[p].e THEN state[o] ELSE @,
                            ![p].err = IF @ = "nil" THEN ExecKill(o) ELSE @]
    /\ UNCHANGED <<extVars, createVars, execVars, events, budget, tdVars>>

\* KillExec, lines 337-341: eg.Wait() returns the first error once every
\* goroutine has finished.
KillExecWait(p) ==
    /\ call[p].pc = "keKill"
    /\ call[p].pend = {}
    /\ call' = Finish(p, call[p].err)
    /\ UNCHANGED <<extVars, createVars, execVars, events, budget, tdVars>>

\* A caller enters hcsTask.DeleteExec(ctx, eid).
IssueDeleteExec(p, eid) ==
    /\ CanIssue(p)
    /\ call' = [call EXCEPT ![p] = [IdleCall EXCEPT !.op = "DeleteExec", !.eid = eid,
                    !.pc = "deGet"]]
    /\ budget' = budget - 1
    /\ UNCHANGED <<extVars, createVars, execVars, events, tdVars>>

\* DeleteExec, lines 350-353: GetExec.
DeleteExecGet(p) ==
    /\ call[p].pc = "deGet"
    /\ LET e == GetExec(call[p].eid)
       IN  call' = CASE e = NoObj -> Finish(p, "ErrNotFound")
                     [] call[p].eid = InitId ->
                            [call EXCEPT ![p].e = e, ![p].pc = "deRange"]
                     [] OTHER -> [call EXCEPT ![p].e = e, ![p].pc = "deState"]
    /\ UNCHANGED <<extVars, createVars, execVars, events, budget, tdVars>>

\* DeleteExec, lines 354-370: deleting the init exec, the all-exited Range.
DeleteExecRange(p) ==
    /\ call[p].pc = "deRange"
    /\ \E order \in Perms(DOMAIN execs) :
         IF RangeInvalid(order)
         THEN call' = [Finish(p, "ErrFailedPrecondition") EXCEPT
                          ![p].invalid = TRUE, ![p].live = LiveNow, ![p].reg = RegNow]
         ELSE call' = [call EXCEPT ![p].live = LiveNow, ![p].reg = RegNow,
                                   ![p].pc = "deState"]
    /\ UNCHANGED <<extVars, createVars, execVars, events, budget, tdVars>>

\* DeleteExec going on to the removal whatever e.State() is.
DeleteExecState_NoStateCheck(p) ==
    /\ call[p].pc = "deState"
    /\ call' = [call EXCEPT ![p].pc = "deCommit", ![p].seen = state[call[p].e]]
    /\ UNCHANGED <<extVars, createVars, execVars, events, budget, tdVars>>

\* DeleteExec, lines 371-374: the target must be Exited.
DeleteExecState(p) ==
    /\ call[p].pc = "deState"
    /\ call' = IF state[call[p].e] # "Exited"
               THEN [Finish(p, "ErrFailedPrecondition") EXCEPT
                        ![p].seen = state[call[p].e]]
               ELSE [call EXCEPT ![p].pc = "deCommit", ![p].seen = state[call[p].e]]
    /\ UNCHANGED <<extVars, createVars, execVars, events, budget, tdVars>>

\* DeleteExec, lines 375-391: ht.execs.Delete(eid) for a non-init exec, the
\* task-delete event, the return of the status.
DeleteExecCommit(p) ==
    /\ call[p].pc = "deCommit"
    /\ LET eid == call[p].eid
       IN  /\ execs' = IF eid # InitId
                       THEN [k \in DOMAIN execs \ {eid} |-> execs[k]]
                       ELSE execs
           /\ events' = Publish(events, "TaskDelete", eid)
    /\ call' = [Finish(p, "nil") EXCEPT ![p].pub = TRUE,
                    ![p].rm = IF call[p].eid # InitId THEN GetExec(call[p].eid) ELSE NoObj]
    /\ UNCHANGED <<extVars, createVars, state, objId, ecl, budget, tdVars>>

\* The call has returned to its caller, which may issue the next one.
Return(p) ==
    /\ call[p].pc = "done"
    /\ call' = [q \in Callers |->
                   IF q = p THEN IdleCall ELSE [call[q] EXCEPT !.conc = @ \ {p}]]
    /\ UNCHANGED <<extVars, createVars, execVars, events, budget, tdVars>>

CreateExec(p) ==
    \/ \E eid \in AllIds : IssueCreateExec(p, eid)
    \/ CreateExecLock(p)
    \/ CreateExecLoad(p)
    \/ CreateExecState(p)
    \/ CreateExecStore(p)

KillExec(p) ==
    \/ \E eid \in AllIds, all \in BOOLEAN : IssueKillExec(p, eid, all)
    \/ KillExecGet(p)
    \/ KillExecRange(p)
    \/ \E o \in Objs : KillExecGo(p, o)
    \/ KillExecWait(p)

DeleteExec(p) ==
    \/ \E eid \in AllIds : IssueDeleteExec(p, eid)
    \/ DeleteExecGet(p)
    \/ DeleteExecRange(p)
    \/ DeleteExecState(p)
    \/ DeleteExecCommit(p)

Operator(p) ==
    \/ CreateExec(p)
    \/ KillExec(p)
    \/ DeleteExec(p)
    \/ \E eid \in AllIds : CallGetExec(p, eid)
    \/ CallPids(p)
    \/ Return(p)

(* ---------------------- waitForExit (teardown) ------------------------- *)
\* waitForExit going on without waiting for the init exec.
TdWait_NoWait ==
    /\ tdPc = "wait"
    /\ tdPc' = IF c # "nil" THEN "shutdown" ELSE "hostClose"
    /\ UNCHANGED <<extVars, createVars, execVars, events, call, budget, tdStarted, hcsLog,
                   shutdownRes, terminateRes>>

\* line 414: ht.init.Wait(context.Background()), then the `ht.c != nil` test.
TdWait ==
    /\ tdPc = "wait"
    /\ ExecWaitReturns(InitObj)
    /\ tdPc' = IF c # "nil" THEN "shutdown" ELSE "hostClose"
    /\ UNCHANGED <<extVars, createVars, execVars, events, call, budget, tdStarted, hcsLog,
                   shutdownRes, terminateRes>>

\* waitForExit giving up when Shutdown fails for a reason other than pending.
TdShutdown_ReturnOnError ==
    /\ tdPc = "shutdown"
    /\ \E r \in {"nil", "pending", "error"} :
         /\ shutdownRes' = r
         /\ tdPc' = CASE r = "nil" -> "release"
                      [] r = "pending" -> "shutdownWait"
                      [] OTHER -> "done"
    /\ hcsLog' = Append(hcsLog, HcsCall("teardown", "Shutdown", 0))
    /\ UNCHANGED <<extVars, createVars, execVars, events, call, budget, tdStarted, terminateRes>>

\* lines 422-428: ht.c.Shutdown().
TdShutdown ==
    /\ tdPc = "shutdown"
    /\ \E r \in {"nil", "pending", "error"} :
         /\ shutdownRes' = r
         /\ tdPc' = CASE r = "nil" -> "release"
                      [] r = "pending" -> "shutdownWait"
                      [] OTHER -> "terminate"
    /\ hcsLog' = Append(hcsLog, HcsCall("teardown", "Shutdown", 0))
    /\ UNCHANGED <<extVars, createVars, execVars, events, call, budget, tdStarted, terminateRes>>

\* waitForExit going from the bounded wait for a pending Shutdown straight to
\* the release, Terminate not called.
TdShutdownWait_SkipTerminate ==
    /\ tdPc = "shutdownWait"
    /\ hcsLog' = Append(hcsLog, HcsCall("teardown", "WaitTimeout", shutdownTimeout))
    /\ tdPc' = "release"
    /\ UNCHANGED <<extVars, createVars, execVars, events, call, budget, tdStarted,
                   shutdownRes, terminateRes>>

\* lines 429-435: ht.c.WaitTimeout(shutdownTimeout); its error is only logged.
TdShutdownWait ==
    /\ tdPc = "shutdownWait"
    /\ hcsLog' = Append(hcsLog, HcsCall("teardown", "WaitTimeout", shutdownTimeout))
    /\ tdPc' = "terminate"
    /\ UNCHANGED <<extVars, createVars, execVars, events, call, budget, tdStarted,
                   shutdownRes, terminateRes>>

\* lines 437-443: ht.c.Terminate(), reached whenever Shutdown returned an error.
TdTerminate ==
    /\ tdPc = "terminate"
    /\ \E r \in {"nil", "alreadyStopped", "pending", "error"} :
         /\ terminateRes' = r
         /\ tdPc' = IF r = "pending" THEN "terminateWait" ELSE "release"
    /\ hcsLog' = Append(hcsLog, HcsCall("teardown", "Terminate", 0))
    /\ UNCHANGED <<extVars, createVars, execVars, events, call, budget, tdStarted, shutdownRes>>

\* lines 444-450: ht.c.WaitTimeout(terminateTimeout); its error is only logged.
TdTerminateWait ==
    /\ tdPc = "terminateWait"
    /\ hcsLog' = Append(hcsLog, HcsCall("teardown", "WaitTimeout", terminateTimeout))
    /\ tdPc' = "release"
    /\ UNCHANGED <<extVars, createVars, execVars, events, call, budget, tdStarted,
                   shutdownRes, terminateRes>>

\* waitForExit closing the host VM right after the release, the container
\* handle left open.
TdRelease_SkipClose ==
    /\ tdPc = "release"
    /\ hcsLog' = Append(hcsLog, HcsCall("teardown", "ReleaseResources", 0))
    /\ tdPc' = "hostClose"
    /\ UNCHANGED <<extVars, createVars, execVars, events, call, budget, tdStarted,
                   shutdownRes, terminateRes>>

\* lines 455-461: hcsoci.ReleaseResources(ht.cr, ht.host, true); error only logged.
TdRelease ==
    /\ tdPc = "release"
    /\ hcsLog' = Append(hcsLog, HcsCall("teardown", "ReleaseResources", 0))
    /\ tdPc' = "close"
    /\ UNCHANGED <<extVars, createVars, execVars, events, call, budget, tdStarted,
                   shutdownRes, terminateRes>>

\* lines 463-469: ht.c.Close(); error only logged.
TdClose ==
    /\ tdPc = "close"
    /\ hcsLog' = Append(hcsLog, HcsCall("teardown", "Close", 0))
    /\ tdPc' = "hostClose"
    /\ UNCHANGED <<extVars, createVars, execVars, events, call, budget, tdStarted,
                   shutdownRes, terminateRes>>

\* waitForExit closing every host VM it holds, owned or not.
TdHostClose_IgnoreOwner ==
    /\ tdPc = "hostClose"
    /\ hcsLog' = IF host # "nil"
                 THEN Append(hcsLog, HcsCall("teardown", "HostClose", 0))
                 ELSE hcsLog
    /\ tdPc' = "done"
    /\ UNCHANGED <<extVars, createVars, execVars, events, call, budget, tdStarted,
                   shutdownRes, terminateRes>>

\* lines 472-483: if ht.ownsHost && ht.host != nil { ht.host.Close() }.
TdHostClose ==
    /\ tdPc = "hostClose"
    /\ hcsLog' = IF ownsHost /\ host # "nil"
                 THEN Append(hcsLog, HcsCall("teardown", "HostClose", 0))
                 ELSE hcsLog
    /\ tdPc' = "done"
    /\ UNCHANGED <<extVars, createVars, execVars, events, call, budget, tdStarted,
                   shutdownRes, terminateRes>>

Teardown ==
    \/ TdWait
    \/ TdShutdown
    \/ TdShutdownWait
    \/ TdTerminate
    \/ TdTerminateWait
    \/ TdRelease
    \/ TdClose
    \/ TdHostClose

Next ==
    \/ ValidateSandboxType
    \/ ProvisionParent
    \/ StartParent
    \/ CallNewHcsTask
    \/ FinishStandalone
    \/ PodCreateTask
    \/ \E o \in Objs : StartExec(o)
    \/ \E o \in Objs : ExitExec(o)
    \/ Teardown
    \/ \E p \in Callers : Operator(p)

Spec == Init /\ [][Next]_vars

\* The waitForExit goroutine keeps being scheduled and every call it makes
\* returns (the two waits are bounded by shutdownTimeout and terminateTimeout).
FairSpec == Init /\ [][Next]_vars /\ WF_vars(Teardown)

\* The task as newHcsStandaloneTask returns it for a process-isolated
\* container: no host VM, the init exec Created, waitForExit started, the
\* task-create event published.
InitOps ==
    /\ crPc = "returned"
    /\ crErr = "nil"
    /\ ntErr = "nil"
    /\ crTask = TRUE
    /\ host = "nil"
    /\ ownsHost = TRUE
    /\ c = "open"
    /\ state = [o \in Objs |-> IF o = InitObj THEN "Created" ELSE "None"]
    /\ objId = [o \in Objs |-> InitId]
    /\ execs = [k \in {} |-> NoObj]
    /\ ecl = 0
    /\ events = [k \in EventKeys |-> IF k = <<"TaskCreate", InitId>> THEN 1 ELSE 0]
    /\ call = [p \in Callers |-> IdleCall]
    /\ budget = MaxCalls
    /\ tdPc = "wait"
    /\ tdStarted = 1
    /\ hcsLog = <<>>
    /\ shutdownRes = "none"
    /\ terminateRes = "none"
    /\ PublishIdle
    /\ VpmemEmpty("linux")

\* The operator surface of a created task: the callers and the exec processes.
NextOps ==
    \/ \E o \in Objs : StartExec(o)
    \/ \E o \in Objs : ExitExec(o)
    \/ \E p \in Callers : Operator(p)

SpecOps == InitOps /\ [][NextOps]_vars

(* ------------- the test doubles testShimTask / testShimExec ------------ *)
\* testShimExec.Start: tse.state = shimExecStateRunning; return nil.
TseStart(st, o) == [st EXCEPT ![o] = "Running"]

\* testShimExec.Kill: tse.state = shimExecStateExited; return nil.
TseKill(st, o) == [st EXCEPT ![o] = "Exited"]

\* testShimTask.GetExec(eid): tst.exec for "", else the entry of tst.execs.
TstGetExec(eid) ==
    IF eid = InitId THEN InitObj
    ELSE IF eid \in DOMAIN execs THEN execs[eid] ELSE NoObj

\* A test builds a testShimTask: its init exec and a map of execs, each
\* testShimExec constructed in the state the test chooses.
InitTest ==
    /\ crPc = "returned"
    /\ crErr = "nil"
    /\ ntErr = "nil"
    /\ crTask = TRUE
    /\ host = "nil"
    /\ ownsHost = FALSE
    /\ c = "nil"
    /\ \E D \in SUBSET ExecIds :
         \E f \in [D -> 1..MaxObjs] :
            /\ \A j, k \in D : f[j] = f[k] => j = k
            /\ {f[k] : k \in D} = 1..Cardinality(D)
            /\ execs = f
            /\ objId = [o \in Objs |-> IF \E k \in D : f[k] = o
                                        THEN CHOOSE k \in D : f[k] = o
                                        ELSE InitId]
            /\ state \in {st \in [Objs -> {"None", "Created", "Running", "Exited"}] :
                            \A o \in Objs :
                               st[o] = "None" <=> (o # InitObj /\ o \notin {f[k] : k \in D})}
    /\ ecl = 0
    /\ events = [k \in EventKeys |-> 0]
    /\ call = [p \in Callers |-> IdleCall]
    /\ budget = MaxCalls
    /\ tdPc = "none"
    /\ tdStarted = 0
    /\ hcsLog = <<>>
    /\ shutdownRes = "none"
    /\ terminateRes = "none"
    /\ PublishIdle
    /\ VpmemEmpty("linux")

\* A test looks an exec up and calls its Start.
TstStartExec(p, eid) ==
    /\ CanIssue(p)
    /\ LET e == TstGetExec(eid)
       IN  IF e = NoObj
           THEN /\ call' = [call EXCEPT ![p] = [IdleCall EXCEPT !.op = "Start", !.eid = eid,
                                !.pc = "done", !.res = "ErrNotFound"]]
                /\ UNCHANGED state
           ELSE /\ call' = [call EXCEPT ![p] = [IdleCall EXCEPT !.op = "Start", !.eid = eid,
                                !.pc = "done", !.e = e, !.seen = state[e], !.res = "nil"]]
                /\ state' = TseStart(state, e)
    /\ budget' = budget - 1
    /\ UNCHANGED <<extVars, createVars, objId, execs, ecl, events, tdVars>>

\* testShimTask.KillExec(ctx, eid, signal, all): GetExec, then e.Kill.
TstKillExec(p, eid, all) ==
    /\ CanIssue(p)
    /\ LET e == TstGetExec(eid)
       IN  IF e = NoObj
           THEN /\ call' = [call EXCEPT ![p] = [IdleCall EXCEPT !.op = "KillExec", !.eid = eid,
                                !.all = all, !.pc = "done", !.res = "ErrNotFound"]]
                /\ UNCHANGED state
           ELSE /\ call' = [call EXCEPT ![p] = [IdleCall EXCEPT !.op = "KillExec", !.eid = eid,
                                !.all = all, !.pc = "done", !.e = e, !.sig = {e},
                                !.seen = state[e], !.res = "nil"]]
                /\ state' = TseKill(state, e)
    /\ budget' = budget - 1
    /\ UNCHANGED <<extVars, createVars, objId, execs, ecl, events, tdVars>>

\* testShimTask.DeleteExec(ctx, eid): GetExec, e.Status(), delete(tst.execs, eid).
TstDeleteExec(p, eid) ==
    /\ CanIssue(p)
    /\ LET e == TstGetExec(eid)
       IN  IF e = NoObj
           THEN /\ call' = [call EXCEPT ![p] = [IdleCall EXCEPT !.op = "DeleteExec", !.eid = eid,
                                !.pc = "done", !.res = "ErrNotFound"]]
                /\ UNCHANGED execs
           ELSE /\ call' = [call EXCEPT ![p] = [IdleCall EXCEPT !.op = "DeleteExec", !.eid = eid,
                                !.pc = "done", !.e = e, !.seen = state[e], !.res = "nil",
                                !.rm = IF eid # InitId THEN e ELSE NoObj]]
                /\ execs' = IF eid # InitId
                            THEN [k \in DOMAIN execs \ {eid} |-> execs[k]]
                            ELSE execs
    /\ budget' = budget - 1
    /\ UNCHANGED <<extVars, createVars, state, objId, ecl, events, tdVars>>

\* testShimTask.Pids(ctx): the pair of tst.exec, then one per entry of tst.execs.
TstPids(p) ==
    /\ CanIssue(p)
    /\ call' = [call EXCEPT ![p] = [IdleCall EXCEPT !.op = "Pids", !.pc = "done",
                    !.reg = RegNow \cup {InitObj}, !.res = "nil"]]
    /\ budget' = budget - 1
    /\ UNCHANGED <<extVars, createVars, execVars, events, tdVars>>

\* The calls a test makes on the test doubles, one after the other.
NextTest ==
    \E p \in Callers :
        \/ \E eid \in AllIds : TstStartExec(p, eid)
        \/ \E eid \in AllIds, all \in BOOLEAN : TstKillExec(p, eid, all)
        \/ \E eid \in AllIds : TstDeleteExec(p, eid)
        \/ TstPids(p)
        \/ Return(p)

SpecTest == InitTest /\ [][NextTest]_vars

(* ----------------------------- publishEvent ---------------------------- *)
\* The callers that have returned from publishEvent with an error.
FailedPublishers == {q \in Callers : publishing[q].pc = "done" /\ publishing[q].err # "nil"}

\* publishEvent returns err: the deferred publishLock.Unlock() runs.
PublishReturns(p, err) ==
    /\ publishing' = [publishing EXCEPT ![p].pc = "done", ![p].err = err]
    /\ publishLock' = 0

\* A caller enters publishEvent(ctx, topic, event), lines 22-28.
PublishCall(p, key) ==
    /\ publishing[p].pc = "idle"
    /\ budget > 0
    /\ publishing' = [publishing EXCEPT ![p] = [IdlePublish EXCEPT !.pc = "lock", !.key = key]]
    /\ budget' = budget - 1
    /\ UNCHANGED <<taskVars, events, publishLock, uvmVars>>

\* lines 30-31: publishLock.Lock(); defer publishLock.Unlock().
PublishLock(p) ==
    /\ publishing[p].pc = "lock"
    /\ publishLock = 0
    /\ publishLock' = p
    /\ publishing' = [publishing EXCEPT ![p].pc = "encode", ![p].after = FailedPublishers]
    /\ UNCHANGED <<taskVars, events, budget, uvmVars>>

\* publishEvent returning "encode failed" with publishLock still held.
PublishEncode_KeepLock(p) ==
    /\ publishing[p].pc = "encode"
    /\ \E ok \in BOOLEAN :
         IF ok
         THEN /\ publishing' = [publishing EXCEPT ![p].pc = "marshal"]
              /\ UNCHANGED publishLock
         ELSE /\ publishing' = [publishing EXCEPT ![p].pc = "done", ![p].err = "encode failed"]
              /\ UNCHANGED publishLock
    /\ UNCHANGED <<taskVars, events, budget, uvmVars>>

\* lines 33-36: typeurl.MarshalAny(event).
PublishEncode(p) ==
    /\ publishing[p].pc = "encode"
    /\ \E ok \in BOOLEAN :
         IF ok
         THEN /\ publishing' = [publishing EXCEPT ![p].pc = "marshal"]
              /\ UNCHANGED publishLock
         ELSE PublishReturns(p, "encode failed")
    /\ UNCHANGED <<taskVars, events, budget, uvmVars>>

\* lines 37-40: encoded.Marshal().
PublishMarshal(p) ==
    /\ publishing[p].pc = "marshal"
    /\ \E ok \in BOOLEAN :
         IF ok
         THEN /\ publishing' = [publishing EXCEPT ![p].pc = "run"]
              /\ UNCHANGED publishLock
         ELSE PublishReturns(p, "marshal failed")
    /\ UNCHANGED <<taskVars, events, budget, uvmVars>>

\* lines 41-48: cmd.Run() of the containerd publish command, then return.
PublishRun(p) ==
    /\ publishing[p].pc = "run"
    /\ \E ok \in BOOLEAN :
         IF ok
         THEN /\ events' = Publish(events, publishing[p].key[1], publishing[p].key[2])
              /\ PublishReturns(p, "nil")
         ELSE /\ PublishReturns(p, "publish failed")
              /\ UNCHANGED events
    /\ UNCHANGED <<taskVars, budget, uvmVars>>

\* The caller has its result and may publish again.
PublishDone(p) ==
    /\ publishing[p].pc = "done"
    /\ publishing' = [publishing EXCEPT ![p] = IdlePublish]
    /\ UNCHANGED <<taskVars, events, budget, publishLock, uvmVars>>

publishEvent(p) ==
    \/ \E key \in EventKeys : PublishCall(p, key)
    \/ PublishLock(p)
    \/ PublishEncode(p)
    \/ PublishMarshal(p)
    \/ PublishRun(p)
    \/ PublishDone(p)

\* The shim process before any task exists; its goroutines publish events.
InitPublish ==
    /\ crPc = "validate"
    /\ crErr = "nil"
    /\ ntErr = "nil"
    /\ crTask = FALSE
    /\ host = "nil"
    /\ ownsHost = FALSE
    /\ c = "nil"
    /\ state = [o \in Objs |-> "None"]
    /\ objId = [o \in Objs |-> InitId]
    /\ execs = [k \in {} |-> NoObj]
    /\ ecl = 0
    /\ events = [k \in EventKeys |-> 0]
    /\ call = [p \in Callers |-> IdleCall]
    /\ budget = MaxCalls
    /\ tdPc = "none"
    /\ tdStarted = 0
    /\ hcsLog = <<>>
    /\ shutdownRes = "none"
    /\ terminateRes = "none"
    /\ PublishIdle
    /\ VpmemEmpty("linux")

NextPublish == \E p \in Callers : publishEvent(p)

SpecPublish == InitPublish /\ [][NextPublish]_vars

(* ------------------- UtilityVM.AddVPMEM / RemoveVPMEM ------------------ *)
\* The return of findVPMEMDevice / findNextVPMEM when no slot qualifies
\* (ErrNotAttached / ErrNoAvailableLocation).
NoSlot == -1

\* findNextVPMEM, lines 29-40: the lowest slot whose entry is nil.
findNextVPMEM ==
    LET free == {i \in Slots : vpmemDevices[i] = NoDevice}
    IN  IF free = {} THEN NoSlot ELSE Min(free)

\* findVPMEMDevice, lines 43-56: the lowest slot holding findThisHostPath.
findVPMEMDevice(findThisHostPath) ==
    LET found == {i \in Slots : vpmemDevices[i] # NoDevice
                                /\ vpmemDevices[i].hostPath = findThisHostPath}
    IN  IF found = {} THEN NoSlot ELSE Min(found)

\* What the calls AddVPMEM makes outside the slot table may do: os.Stat
\* fails, the file is larger than vpmemMaxSizeBytes, the VM does not support
\* the operation, AddVPMemDevice fails, the guest request fails, all succeed.
AddOutcomes == {"statErr", "tooLarge", "notSupported", "addErr", "guestErr", "ok"}
RemoveOutcomes == {"notSupported", "guestErr", "removeErr", "ok"}

\* The record of an AddVPMEM / RemoveVPMEM call.
UvmCalled(op, hostPath, err, ret, hotAdded) ==
    [op |-> op, hostPath |-> hostPath, err |-> err, ret |-> ret,
     hotAdded |-> hotAdded, wasDevices |-> vpmemDevices, wasVm |-> vmDevices,
     wasHeld |-> held[hostPath]]

\* AddVPMEM(ctx, hostPath), lines 60-119; uvm.m is held from line 65 to the
\* return.
AddVPMEM(hostPath) ==
    LET d == findVPMEMDevice(hostPath)
        n == findNextVPMEM
        none == <<"none", 0>>
    IN
    \/ /\ operatingSystem # "linux"
       /\ uvmCall' = UvmCalled("AddVPMEM", hostPath, "errNotSupported", none, FALSE)
       /\ UNCHANGED <<vpmemDevices, vmDevices, guestMounts, held>>
    \/ /\ operatingSystem = "linux"
       /\ d # NoSlot
       /\ vpmemDevices[d].refCount < MaxRef
       /\ vpmemDevices' = [vpmemDevices EXCEPT ![d].refCount = @ + 1]
       /\ held' = [held EXCEPT ![hostPath] = @ + 1]
       /\ uvmCall' = UvmCalled("AddVPMEM", hostPath, "nil", vpmemDevices[d].uvmPath, FALSE)
       /\ UNCHANGED <<vmDevices, guestMounts>>
    \/ /\ operatingSystem = "linux"
       /\ d = NoSlot
       /\ \E out \in AddOutcomes :
            CASE out = "statErr" ->
                   /\ uvmCall' = UvmCalled("AddVPMEM", hostPath, "ErrStat", none, FALSE)
                   /\ UNCHANGED <<vpmemDevices, vmDevices, guestMounts, held>>
              [] out = "tooLarge" ->
                   /\ uvmCall' = UvmCalled("AddVPMEM", hostPath, "ErrMaxVPMEMLayerSize", none, FALSE)
                   /\ UNCHANGED <<vpmemDevices, vmDevices, guestMounts, held>>
              [] n = NoSlot ->
                   /\ uvmCall' = UvmCalled("AddVPMEM", hostPath, "ErrNoAvailableLocation", none, FALSE)
                   /\ UNCHANGED <<vpmemDevices, vmDevices, guestMounts, held>>
              [] out = "notSupported" ->
                   /\ uvmCall' = UvmCalled("AddVPMEM", hostPath, "ErrNotSupported", none, FALSE)
                   /\ UNCHANGED <<vpmemDevices, vmDevices, guestMounts, held>>
              [] out = "addErr" ->
                   /\ uvmCall' = UvmCalled("AddVPMEM", hostPath, "failed to add vpmem device", none, FALSE)
                   /\ UNCHANGED <<vpmemDevices, vmDevices, guestMounts, held>>
              [] out = "guestErr" ->
                   /\ vmDevices' = [vmDevices EXCEPT ![n] = hostPath]
                   /\ uvmCall' = UvmCalled("AddVPMEM", hostPath,
                                           "failed guest request to add vpmem device", none, TRUE)
                   /\ UNCHANGED <<vpmemDevices, guestMounts, held>>
              [] OTHER ->
                   /\ vmDevices' = [vmDevices EXCEPT ![n] = hostPath]
                   /\ guestMounts' = guestMounts \cup {n}
                   /\ vpmemDevices' = [vpmemDevices EXCEPT ![n] =
                          [hostPath |-> hostPath, uvmPath |-> lcowVPMEMLayerFmt(n),
                           refCount |-> 1]]
                   /\ held' = [held EXCEPT ![hostPath] = @ + 1]
                   /\ uvmCall' = UvmCalled("AddVPMEM", hostPath, "nil", lcowVPMEMLayerFmt(n), TRUE)

\* RemoveVPMEM(ctx, hostPath), lines 123-171; uvm.m is held from line 128 to
\* the return.
RemoveVPMEM(hostPath) ==
    LET d == findVPMEMDevice(hostPath)
        none == <<"none", 0>>
    IN
    \/ /\ operatingSystem # "linux"
       /\ uvmCall' = UvmCalled("RemoveVPMEM", hostPath, "errNotSupported", none, FALSE)
       /\ UNCHANGED <<vpmemDevices, vmDevices, guestMounts, held>>
    \/ /\ operatingSystem = "linux"
       /\ d = NoSlot
       /\ uvmCall' = UvmCalled("RemoveVPMEM", hostPath, "ErrNotAttached", none, FALSE)
       /\ UNCHANGED <<vpmemDevices, vmDevices, guestMounts, held>>
    \/ /\ operatingSystem = "linux"
       /\ d # NoSlot
       /\ vpmemDevices[d].refCount # 1
       /\ vpmemDevices' = [vpmemDevices EXCEPT ![d].refCount = @ - 1]
       /\ held' = [held EXCEPT ![hostPath] = @ - 1]
       /\ uvmCall' = UvmCalled("RemoveVPMEM", hostPath, "nil", none, FALSE)
       /\ UNCHANGED <<vmDevices, guestMounts>>
    \/ /\ operatingSystem = "linux"
       /\ d # NoSlot
       /\ vpmemDevices[d].refCount = 1
       /\ \E out \in RemoveOutcomes :
            CASE out = "notSupported" ->
                   /\ uvmCall' = UvmCalled("RemoveVPMEM", hostPath, "ErrNotSupported", none, FALSE)
                   /\ UNCHANGED <<vpmemDevices, vmDevices, guestMounts, held>>
              [] out = "guestErr" ->
                   /\ uvmCall' = UvmCalled("RemoveVPMEM", hostPath,
                                           "failed to remove vpmem device from guest", none, FALSE)
                   /\ UNCHANGED <<vpmemDevices, vmDevices, guestMounts, held>>
              [] out = "removeErr" ->
                   /\ guestMounts' = guestMounts \ {d}
                   /\ uvmCall' = UvmCalled("RemoveVPMEM", hostPath,
                                           "failed to remove vpmem device", none, FALSE)
                   /\ UNCHANGED <<vpmemDevices, vmDevices, held>>
              [] OTHER ->
                   /\ guestMounts' = guestMounts \ {d}
                   /\ vmDevices' = [vmDevices EXCEPT ![d] = "none"]
                   /\ vpmemDevices' = [vpmemDevices EXCEPT ![d] = NoDevice]
                   /\ held' = [held EXCEPT ![hostPath] = @ - 1]
                   /\ uvmCall' = UvmCalled("RemoveVPMEM", hostPath, "nil", none, FALSE)

\* A caller of the utility VM adds a VPMEM layer.
CallAddVPMEM ==
    /\ \E hostPath \in HostPaths : AddVPMEM(hostPath)
    /\ UNCHANGED <<taskVars, events, budget, pubVars, operatingSystem>>

\* A caller of the utility VM removes a VPMEM layer.
CallRemoveVPMEM ==
    /\ \E hostPath \in HostPaths : RemoveVPMEM(hostPath)
    /\ UNCHANGED <<taskVars, events, budget, pubVars, operatingSystem>>

\* A utility VM, Linux or Windows, as it is created: no VPMEM device.
InitVpmem ==
    /\ crPc = "validate"
    /\ crErr = "nil"
    /\ ntErr = "nil"
    /\ crTask = FALSE
    /\ host = "nil"
    /\ ownsHost = FALSE
    /\ c = "nil"
    /\ state = [o \in Objs |-> "None"]
    /\ objId = [o \in Objs |-> InitId]
    /\ execs = [k \in {} |-> NoObj]
    /\ ecl = 0
    /\ events = [k \in EventKeys |-> 0]
    /\ call = [p \in Callers |-> IdleCall]
    /\ budget = LifeCalls
    /\ tdPc = "none"
    /\ tdStarted = 0
    /\ hcsLog = <<>>
    /\ shutdownRes = "none"
    /\ terminateRes = "none"
    /\ PublishIdle
    /\ \E os \in {"linux", "windows"} : VpmemEmpty(os)

NextVpmem ==
    \/ CallAddVPMEM
    \/ CallRemoveVPMEM

SpecVpmem == InitVpmem /\ [][NextVpmem]_vars

(* ------------------------------ claims --------------------------------- *)
Done(p, op) == call[p].op = op /\ call[p].pc = "done"

\* Two finished CreateExec calls of different callers that overlapped (one
\* was issued while the other was running), carried the same non-empty exec
\* id and were both issued while that id was not registered.
SameIdCreates(p, q) ==
    /\ p # q
    /\ Done(p, "CreateExec") /\ Done(q, "CreateExec")
    /\ (p \in call[q].conc \/ q \in call[p].conc)
    /\ call[p].eid = call[q].eid
    /\ call[p].eid # InitId
    /\ call[p].fresh /\ call[q].fresh

\* C1 as stated: of two concurrent CreateExec calls with the same non-empty,
\* unregistered id, issued while the init exec is Running, exactly one returns
\* success, the other already-exists, and the id is registered afterwards.
C1_Original ==
    \A p, q \in Callers :
        (SameIdCreates(p, q) /\ call[p].issuedInit = "Running"
                             /\ call[q].issuedInit = "Running")
        => /\ {call[p].res, call[q].res} = {"nil", "ErrAlreadyExists"}
           /\ call[p].eid \in DOMAIN execs

\* C1 amended: two concurrent CreateExec calls with the same non-empty,
\* unregistered id never both succeed and never both insert an exec; when
\* neither call fails the init-Running check or the creation of its IO relay,
\* exactly one returns success and inserts the exec, the other returns
\* already-exists, and the id is registered.
C1_CreateExecExclusive ==
    \A p, q \in Callers :
        SameIdCreates(p, q)
        => /\ ~(call[p].res = "nil" /\ call[q].res = "nil")
           /\ ~(call[p].stored /\ call[q].stored)
           /\ ({call[p].res, call[q].res} \cap {"ErrFailedPrecondition", "ErrRelay"} = {}
               => /\ {call[p].res, call[q].res} = {"nil", "ErrAlreadyExists"}
                  /\ call[p].stored # call[q].stored
                  /\ call[p].eid \in DOMAIN execs)

C1_Witness ==
    \E p, q \in Callers :
        /\ SameIdCreates(p, q)
        /\ call[p].res = "nil" /\ call[p].stored
        /\ call[q].res = "ErrAlreadyExists" /\ ~call[q].stored
        /\ call[p].eid \in DOMAIN execs

\* The Range of a KillExec / DeleteExec call on the init exec has run and
\* found, at that moment, a registry exec that was Created or Running.
RangedLive(p, op) ==
    /\ call[p].op = op
    /\ call[p].eid = InitId
    /\ ~call[p].all
    /\ call[p].live

\* C2: KillExec("", all=false) signals the init exec only if every registry
\* exec is Exited: when the registry holds a Created or Running exec the call
\* fails with a precondition violation and Kill is not run on the init exec.
C2_KillInitNeedsAllExited ==
    \A p \in Callers :
        RangedLive(p, "KillExec")
        => /\ InitObj \notin call[p].sig
           /\ call[p].pc = "done" => call[p].res = "ErrFailedPrecondition"

\* C3: DeleteExec("") fails with a precondition violation whenever the
\* registry holds an exec that is not Exited, and then publishes no
\* task-delete event.
C3_DeleteInitNeedsAllExited ==
    \A p \in Callers :
        RangedLive(p, "DeleteExec")
        => /\ ~call[p].pub
           /\ call[p].pc = "done" => call[p].res = "ErrFailedPrecondition"

\* C4: a finished KillExec("", all=true) has run Kill on every exec that was
\* in the registry when it ranged over it and on the init exec, every
\* dispatched Kill has completed, and it returns an error if one of them failed.
C4_KillAllSignalsEveryExec ==
    \A p \in Callers :
        (Done(p, "KillExec") /\ call[p].all /\ call[p].eid = InitId)
        => /\ call[p].reg \cup {InitObj} \subseteq call[p].sig
           /\ call[p].pend = {}
           /\ call[p].res = call[p].err

\* The init exec was not Running at any moment of caller p's current call: it
\* was Exited when the call was issued, or it is still Created.
InitNotRunningDuring(p) ==
    \/ call[p].issuedInit = "Exited"
    \/ call[p].issuedInit = "Created" /\ state[InitObj] = "Created"

\* C5 as stated: CreateExec succeeds only if it found the init exec Running,
\* and a CreateExec issued while the init exec is Created or Exited fails
\* with a precondition violation and adds no exec.
C5_Original ==
    \A p \in Callers :
        Done(p, "CreateExec")
        => /\ call[p].res = "nil" => call[p].seenInit = "Running"
           /\ InitNotRunningDuring(p)
              => call[p].res = "ErrFailedPrecondition" /\ ~call[p].stored

\* C5 amended: CreateExec succeeds only if it found the init exec Running; a
\* CreateExec that runs while the init exec is Created or Exited fails and
\* adds no exec, with already-exists when its id is empty or registered (that
\* test comes first) and with a precondition violation otherwise.
C5_CreateExecNeedsInitRunning ==
    \A p \in Callers :
        Done(p, "CreateExec")
        => /\ call[p].res = "nil" => call[p].seenInit = "Running" /\ call[p].stored
           /\ call[p].stored => call[p].seenInit = "Running"
           /\ InitNotRunningDuring(p)
              => /\ ~call[p].stored
                 /\ call[p].eid \notin DOMAIN execs \/ call[p].dup
                 /\ call[p].res = IF call[p].eid = InitId \/ call[p].dup
                                  THEN "ErrAlreadyExists"
                                  ELSE "ErrFailedPrecondition"

C5_Witness ==
    \E p \in Callers :
        /\ Done(p, "CreateExec")
        /\ call[p].issuedInit = "Exited"
        /\ call[p].eid # InitId
        /\ call[p].res = "ErrFailedPrecondition"
        /\ ~call[p].stored

\* The calls the waitForExit goroutine has made, in order.
TdLog == SelectSeq(hcsLog, LAMBDA x : x[1] = "teardown")

\* The place of a teardown call in the sequence of section 4.8.
Rank(x) ==
    CASE x[2] = "Shutdown" -> 1
      [] x[2] = "WaitTimeout" /\ x[3] = shutdownTimeout -> 2
      [] x[2] = "Terminate" -> 3
      [] x[2] = "WaitTimeout" /\ x[3] = terminateTimeout -> 4
      [] x[2] = "ReleaseResources" -> 5
      [] x[2] = "Close" -> 6
      [] x[2] = "HostClose" -> 7
      [] OTHER -> 0

TdDid(r) == \E i \in 1..Len(TdLog) : Rank(TdLog[i]) = r

\* The stop attempt is over: Shutdown was called and, where its result asks
\* for them, so were the bounded wait, Terminate and Terminate's bounded wait.
StopFinished ==
    /\ TdDid(1)
    /\ shutdownRes = "pending" => TdDid(2)
    /\ shutdownRes # "nil" => TdDid(3)
    /\ (shutdownRes # "nil" /\ terminateRes = "pending") => TdDid(4)

\* C6: the teardown stages happen in the order stop (Shutdown, then any
\* bounded wait and Terminate), release, handle close, host close, each at
\* most once; the resources are released only after the stop attempt is over,
\* the host is closed only after the handle close, and a finished teardown
\* has stopped, released and closed the container.
C6_TeardownOrder ==
    /\ \A i, j \in 1..Len(TdLog) : i < j => Rank(TdLog[i]) < Rank(TdLog[j])
    /\ \A i \in 1..Len(TdLog) : Rank(TdLog[i]) > 0
    /\ TdDid(5) => StopFinished
    /\ TdDid(6) => TdDid(5)
    /\ TdDid(7) => TdDid(6)
    /\ tdPc = "done" => TdDid(1) /\ TdDid(5) /\ TdDid(6)

C6_Witness ==
    /\ tdPc = "done"
    /\ shutdownRes = "pending"
    /\ terminateRes = "pending"
    /\ Len(TdLog) = 7

\* C7: one waitForExit goroutine is started per task, and it makes no call
\* on the container, its resources or the host while the init exec is
\* Created or Running.
C7_TeardownAfterInitExit ==
    /\ tdStarted <= 1
    /\ c # "nil" => tdStarted = 1
    /\ tdStarted = 0 => tdPc = "none"
    /\ (TdLog # <<>> \/ tdPc \notin {"none", "wait"}) => state[InitObj] = "Exited"

C7_Witness ==
    /\ tdStarted = 1
    /\ tdPc = "done"
    /\ state[InitObj] = "Exited"
    /\ TdDid(1) /\ TdDid(5) /\ TdDid(6)

\* C8: when parent.Start() fails, the parent is closed, no container is
\* created in it, no task is returned and the call returns an error.
C8_StartFailureFailsCreate ==
    host = "startFailed"
    => /\ Count(hcsLog, "create", "HostClose") >= 1
       /\ c = "nil"
       /\ ~crTask
       /\ crPc = "returned" => crErr # "nil"

\* C9: when the parent was started and newHcsTask fails creating the
\* container, newHcsStandaloneTask closes the parent exactly once, returns
\* that error and returns no task.
C9_CreateFailureRollsBack ==
    (crPc = "returned" /\ host = "started" /\ ntErr = "ErrCreateContainer")
    => /\ CountOp(hcsLog, "HostClose") = 1
       /\ Count(hcsLog, "create", "HostClose") = 1
       /\ crErr = "ErrCreateContainer"
       /\ ~crTask
       /\ c = "nil"

C9_Witness ==
    /\ crPc = "returned"
    /\ host = "started"
    /\ ntErr = "ErrCreateContainer"
    /\ crErr = "ErrCreateContainer"
    /\ CountOp(hcsLog, "HostClose") = 1

\* The calls that shut down, release or close the container.
ContainerOps == {"Shutdown", "Terminate", "WaitTimeout", "ReleaseResources", "Close"}

\* C10: once the init exec is Exited, waitForExit eventually has released the
\* resources exactly once and closed the container handle exactly once,
\* whatever Shutdown, Terminate and the waits return; only waitForExit calls
\* the container, and no step of an operator call adds a call on it.
C10_TeardownReleasesOnce ==
    /\ [](/\ Count(hcsLog, "teardown", "ReleaseResources") <= 1
          /\ Count(hcsLog, "teardown", "Close") <= 1
          /\ \A i \in 1..Len(hcsLog) :
                hcsLog[i][2] \in ContainerOps => hcsLog[i][1] = "teardown")
    /\ (state[InitObj] = "Exited" /\ c # "nil")
          ~> (/\ CountOp(hcsLog, "ReleaseResources") = 1
              /\ CountOp(hcsLog, "Close") = 1)
    /\ [][(\E p \in Callers : Operator(p)) => hcsLog' = hcsLog]_vars

C10_Witness ==
    /\ tdPc = "done"
    /\ shutdownRes = "error"
    /\ terminateRes = "error"
    /\ CountOp(hcsLog, "ReleaseResources") = 1
    /\ CountOp(hcsLog, "Close") = 1
    /\ \E p \in Callers : call[p].pc = "done"

\* The teardown has left its stop stage: it has reached the release of the
\* resources.
PastStop == tdPc \in {"release", "close", "hostClose", "done"} /\ TdDid(1)

\* C11 as stated: Terminate is attempted when Shutdown failed for a reason
\* other than pending, and is not attempted when Shutdown succeeded or
\* reported pending (then the teardown waits up to the bound and goes on to
\* the release).
C11_Original ==
    /\ (shutdownRes = "error" /\ PastStop) => TdDid(3)
    /\ shutdownRes \in {"nil", "pending"} => ~TdDid(3)
    /\ (shutdownRes = "pending" /\ PastStop) => TdDid(2)

\* C11 amended: Terminate is attempted whenever Shutdown returned an error,
\* pending included, and is not attempted when Shutdown succeeded; after a
\* pending Shutdown the teardown first waits up to shutdownTimeout, then calls
\* Terminate, and only then goes on to the release; after any other Shutdown
\* error it calls Terminate without waiting.
C11_TerminateAfterFailedShutdown ==
    /\ TdDid(3) => shutdownRes \in {"pending", "error"}
    /\ shutdownRes = "nil" => ~TdDid(2) /\ ~TdDid(3) /\ ~TdDid(4)
    /\ (shutdownRes \in {"pending", "error"} /\ PastStop) => TdDid(3)
    /\ TdDid(2) <=> (shutdownRes = "pending" /\ tdPc # "shutdownWait")
    /\ TdDid(4) => TdDid(3) /\ terminateRes = "pending"
    /\ \A i, j \in 1..Len(TdLog) :
          (Rank(TdLog[i]) = 2 /\ Rank(TdLog[j]) = 3) => i < j

C11_Witness ==
    /\ shutdownRes = "pending"
    /\ PastStop
    /\ TdDid(2) /\ TdDid(3)
    /\ terminateRes = "alreadyStopped"

\* C12: waitForExit closes the host VM at most once, and does so if and only
\* if the task owns it (ht.ownsHost) and it is present (ht.host != nil); a
\* task created with ownsParent false never closes the VM it runs in.
C12_HostClosedIffOwned ==
    /\ Count(hcsLog, "teardown", "HostClose") <= 1
    /\ Count(hcsLog, "teardown", "HostClose") = 1 => ownsHost /\ host # "nil"
    /\ tdPc = "done" =>
          (Count(hcsLog, "teardown", "HostClose") = 1 <=> (ownsHost /\ host # "nil"))
    /\ (crTask /\ ~ownsHost) => CountOp(hcsLog, "HostClose") = 0

C12_Witness ==
    /\ tdPc = "done"
    /\ crTask /\ ~ownsHost
    /\ host = "shared"
    /\ CountOp(hcsLog, "HostClose") = 0
    /\ CountOp(hcsLog, "Close") = 1

\* A task that owns its VM has closed it at the end of its teardown.
C12_OwnerWitness ==
    /\ tdPc = "done"
    /\ ownsHost /\ host = "started"
    /\ Count(hcsLog, "teardown", "HostClose") = 1

C14_DeleteExecRemovesItsExec ==
    \A p \in Callers :
        (Done(p, "DeleteExec") /\ call[p].res = "nil")
        => IF call[p].eid = InitId
           THEN call[p].rm = NoObj /\ call[p].e = InitObj
           ELSE call[p].rm = call[p].e

\* C15: KillExec with all=true and a non-empty exec id, registered or not,
\* fails with a precondition violation and runs Kill on no exec.
C15_KillAllNeedsEmptyId ==
    \A p \in Callers :
        (call[p].op = "KillExec" /\ call[p].all /\ call[p].eid # InitId)
        => /\ call[p].sig = {} /\ call[p].pend = {}
           /\ call[p].pc = "done" => call[p].res = "ErrFailedPrecondition"

\* C16: a CreateExec that finds its id empty or already registered fails
\* with already-exists; every CreateExec that fails has stored no exec and
\* published no event, and the step on which it fails leaves the registry and
\* the events as they were; a CreateExec that succeeds has stored and
\* published.
C16_CreateExecRejectsDuplicates ==
    /\ [](\A p \in Callers :
            call[p].op = "CreateExec" =>
              /\ (call[p].dup \/ (call[p].eid = InitId /\ call[p].pc \notin {"ceLock", "ceLoad"}))
                    => call[p].pc = "done" /\ call[p].res = "ErrAlreadyExists"
              /\ (call[p].pc = "done" /\ call[p].res # "nil")
                    => ~call[p].stored /\ ~call[p].pub
              /\ (call[p].pc = "done" /\ call[p].res = "nil")
                    => call[p].stored /\ call[p].pub /\ call[p].eid # InitId)
    /\ [][\A p \in Callers :
            (call[p].op = "CreateExec" /\ call[p].pc # "done" /\ call'[p].pc = "done")
            => /\ (call[p].pc = "ceLoad" /\ (call[p].eid \in DOMAIN execs \/ call[p].eid = InitId))
                    => call'[p].res = "ErrAlreadyExists"
               /\ call'[p].res # "nil" => execs' = execs /\ events' = events /\ state' = state
               /\ call'[p].res = "nil" => call[p].eid \notin DOMAIN execs]_vars

C16_Witness ==
    \E p \in Callers :
        /\ Done(p, "CreateExec")
        /\ call[p].dup
        /\ call[p].res = "ErrAlreadyExists"
        /\ call[p].eid \in DOMAIN execs
        /\ events[<<"TaskExecAdded", call[p].eid>>] = 1

C18_PidsListsEveryExec ==
    \A p \in Callers :
        Done(p, "Pids")
        => /\ call[p].res = "nil"
           /\ call[p].reg = RegNow \cup {InitObj}

\* C20: DeleteExec accepts an exec it finds Created as well as one it finds
\* Exited, and returns a failed-precondition error exactly when it finds the
\* exec Running.
C20_DeleteExecAcceptsCreated ==
    \A p \in Callers :
        (Done(p, "DeleteExec") /\ call[p].seen # "None")
        => (call[p].res = "ErrFailedPrecondition" <=> call[p].seen = "Running")

\* The place of an exec state in the order Created, Running, Exited.
ExecRank(st) ==
    CASE st = "Created" -> 1
      [] st = "Running" -> 2
      [] st = "Exited" -> 3
      [] OTHER -> 0

\* C19: over Start and Kill calls an exec's state never moves backwards in
\* the order Created, Running, Exited, and a Start on an exec that is not
\* Created fails with a precondition violation and leaves the state as it was.
C19_ExecStateMonotonic ==
    \A p \in Callers :
        (call[p].pc = "done" /\ call[p].op \in {"Start", "KillExec"} /\ call[p].e # NoObj)
        => /\ ExecRank(state[call[p].e]) >= ExecRank(call[p].seen)
           /\ (call[p].op = "Start" /\ call[p].seen # "Created")
                 => /\ call[p].res = "ErrFailedPrecondition"
                    /\ state[call[p].e] = call[p].seen

\* C21: no CreateExec stores an exec in the registry once a DeleteExec of
\* the empty id has succeeded (has published the task-delete event of the
\* init exec).
C21_NoExecAfterTaskDelete ==
    \A p \in Callers :
        (call[p].op = "CreateExec" /\ call[p].stored) => ~call[p].late

\* C22: at most one task-delete event is published for the init exec, and
\* for every other exec id no more task-delete events than execs were
\* registered under that id (each exec is deleted at most once).
C22_OneTaskDeletePerExec ==
    /\ events[<<"TaskDelete", InitId>>] <= 1
    /\ \A k \in ExecIds :
          events[<<"TaskDelete", k>>] <= events[<<"TaskExecAdded", k>>]

\* The callers between publishLock.Lock() and the return of publishEvent:
\* encoding, marshalling or running the publish command.
InPublish == {p \in Callers : publishing[p].pc \in {"encode", "marshal", "run"}}

\* C23: at most one publishEvent call is encoding or running the publish
\* command at any time; publishLock is held exactly while a call is in that
\* section, so a call that has returned, with success or with an encode,
\* marshal or publish failure, has released it.
C23_PublishSerialized ==
    /\ Cardinality(InPublish) <= 1
    /\ \A p \in Callers : publishLock = p <=> p \in InPublish
    /\ publishLock = 0 <=> InPublish = {}
    /\ \A p \in Callers : publishing[p].pc = "done" => publishLock # p

C23_Witness ==
    \E p, q \in Callers :
        /\ p # q
        /\ publishing[p].pc = "done" /\ publishing[p].err = "encode failed"
        /\ publishing[q].pc = "run" /\ publishLock = q
        /\ p \in publishing[q].after


\* The slots that hold a device.
Attached == {i \in Slots : vpmemDevices[i] # NoDevice}

\* A host path occupies at most one slot, the reference count of an attached
\* path is the number of its successful adds not yet removed, and a path that
\* is not attached has none outstanding.
VpmemSlotsSound ==
    /\ \A i, j \in Attached :
          vpmemDevices[i].hostPath = vpmemDevices[j].hostPath => i = j
    /\ \A i \in Attached :
          /\ vpmemDevices[i].refCount = held[vpmemDevices[i].hostPath]
          /\ vpmemDevices[i].refCount >= 1
          /\ vpmemDevices[i].uvmPath = lcowVPMEMLayerFmt(i)
    /\ \A h \in HostPaths :
          (\A i \in Attached : vpmemDevices[i].hostPath # h) => held[h] = 0

\* What the last call did to the slot table: an add of an attached path
\* returns the path's UVM path and only raises its count, a slot is freed
\* only by the successful remove that matches the last outstanding add, and
\* a remove of a path that is not attached returns ErrNotAttached and changes
\* nothing.
VpmemCallsSound ==
    LET was == uvmCall.wasDevices
        h == uvmCall.hostPath
        wasAt == {i \in Slots : was[i] # NoDevice /\ was[i].hostPath = h}
    IN
    /\ (uvmCall.op = "AddVPMEM" /\ wasAt # {}) =>
          \A i \in wasAt :
              /\ uvmCall.err = "nil"
              /\ uvmCall.ret = was[i].uvmPath
              /\ vpmemDevices = [was EXCEPT ![i].refCount = @ + 1]
              /\ vmDevices = uvmCall.wasVm
    /\ \A i \in Slots :
          (was[i] # NoDevice /\ vpmemDevices[i] = NoDevice) =>
              /\ uvmCall.op = "RemoveVPMEM"
              /\ uvmCall.err = "nil"
              /\ was[i].hostPath = h
              /\ uvmCall.wasHeld = 1
    /\ (uvmCall.op = "RemoveVPMEM" /\ wasAt = {}) =>
          /\ uvmCall.err = "ErrNotAttached"
          /\ vpmemDevices = was
          /\ vmDevices = uvmCall.wasVm

\* The slot table of a Linux utility VM is kept as C24 says.
VpmemTableSound ==
    operatingSystem = "linux" => (VpmemSlotsSound /\ VpmemCallsSound)

\* The device of a path is hot-added only by the first successful add of the
\* path, and a device of the VM is the device of the path in its slot.
VpmemHotAddOnce ==
    /\ uvmCall.hotAdded =>
          /\ uvmCall.op = "AddVPMEM"
          /\ uvmCall.err = "nil"
          /\ uvmCall.wasHeld = 0
    /\ \A i \in Slots :
          vmDevices[i] # "none" =>
              /\ i \in Attached
              /\ vpmemDevices[i].hostPath = vmDevices[i]

\* C24: on a Linux utility VM, whatever AddVPMEM and RemoveVPMEM calls were
\* made, a host path occupies at most one VPMEM slot and no slot belongs to
\* two host paths, the device is hot-added only by the first successful add
\* of a path, a further add of an attached path returns the same UVM path and
\* only raises the reference count, a slot is freed only by the successful
\* remove matching the last outstanding add, and RemoveVPMEM of a path that
\* is not attached returns ErrNotAttached and changes no slot.
C24_VpmemSlotPerPath ==
    operatingSystem = "linux" =>
        /\ VpmemSlotsSound
        /\ VpmemCallsSound
        /\ VpmemHotAddOnce

\* C25: when AddVPMEM returns an error the slot table and the set of VPMEM
\* devices hot-added to the VM are what they were before the call.
C25_FailedAddChangesNothing ==
    (uvmCall.op = "AddVPMEM" /\ uvmCall.err # "nil") =>
        /\ vpmemDevices = uvmCall.wasDevices
        /\ vmDevices = uvmCall.wasVm

=============================================================================
